---- MODULE Spec2Model ----
(***************************************************************************)
(* A model of usb-billboard (src/src/main.rs): the reconnect supervisor of *)
(* async_main, the Log Console (logger_task raced against input_task, with *)
(* the echo-suppression decoder), the Register Shell, the background stdin *)
(* reader task and the vendor control requests.                            *)
(*                                                                         *)
(* Text is modelled as sequences of byte values (ASCII), so that trimming, *)
(* tokenising and hex parsing are computed and not assumed.  The firmware  *)
(* and the operator are the environment: the firmware keeps one FIFO log   *)
(* stream, appends the echo of every console command it receives (the      *)
(* command's bytes, which end in CR, followed by LF), and answers a log    *)
(* poll with a prefix of that stream.  Every byte of the stream carries a  *)
(* mark "echo" that the program never reads; it only lets the properties   *)
(* tell echoed bytes from log bytes.                                       *)
(*                                                                         *)
(* Process-level termination (the Ctrl-C handler of main) is not modelled. *)
(***************************************************************************)
EXTENDS Integers, Sequences, FiniteSets, TLC

\* ------------------------------------------------------------------ bounds
\* Lines the operator enters on standard input in Reg mode.
MaxLines == 2
\* Events of the environment in a run: in Log mode the lines the operator
\* enters, in both modes the bytes of log text the firmware produces on its
\* own and the reads of standard input by the reader task after its end.
MaxEvents == 2
\* Consecutive failures of device discovery before it succeeds.
MaxFails == 1
\* Frames fed to the decoder, and the length of each, in SpecDecoder.
MaxFrames == 2
MaxFrameLen == 2
\* The length of the tokens given to parse_hex_u16 in SpecHex.
MaxTokLen == 4

\* ------------------------------------------------------- program constants
REQ_GET_DBG_MSG == 16
REQ_GET_WR_REG == 17
REQ_GET_RD_REG == 18
REQ_SET_DBG_MSG == 34
READ_BUFFER_SIZE == 8

\* Byte values the code names: b'\r', b'\n', the frame terminator 0.
CR == 13
LF == 10
NUL == 0

\* u16 arithmetic wraps at 2^16, u8 at 2^8.
U16 == 65536
U8 == 256

Min(a, b) == IF a < b THEN a ELSE b

\* ---------------------------------------------------------- text helpers
\* char::is_whitespace on the ASCII range: TAB, LF, VT, FF, CR, SPACE.
IsWhitespace(c) == c \in {9, 10, 11, 12, 13, 32}

RECURSIVE TrimStart(_)
TrimStart(s) ==
    IF s = <<>> THEN <<>>
    ELSE IF IsWhitespace(Head(s)) THEN TrimStart(Tail(s))
    ELSE s

RECURSIVE TrimEnd(_)
TrimEnd(s) ==
    IF s = <<>> THEN <<>>
    ELSE IF IsWhitespace(s[Len(s)]) THEN TrimEnd(SubSeq(s, 1, Len(s) - 1))
    ELSE s

\* str::trim: leading and trailing whitespace removed.
trim(s) == TrimEnd(TrimStart(s))

\* The first maximal run of non-whitespace bytes of s (s starts with one).
RECURSIVE FirstToken(_)
FirstToken(s) ==
    IF s = <<>> \/ IsWhitespace(Head(s)) THEN <<>>
    ELSE <<Head(s)>> \o FirstToken(Tail(s))

\* str::split_whitespace: the non-empty runs of non-whitespace, in order.
RECURSIVE split_whitespace(_)
split_whitespace(s) ==
    LET t == TrimStart(s) IN
    IF t = <<>> THEN <<>>
    ELSE LET tok == FirstToken(t) IN
         <<tok>> \o split_whitespace(SubSeq(t, Len(tok) + 1, Len(t)))

\* char::to_lowercase on ASCII.
ToLower(c) == IF c \in 65..90 THEN c + 32 ELSE c

\* char::to_digit(16): the value of a hex digit, or -1.
HexDigit(c) ==
    IF c \in 48..57 THEN c - 48
    ELSE IF c \in 97..102 THEN c - 87
    ELSE IF c \in 65..70 THEN c - 55
    ELSE -1

\* The digit loop of u16::from_str_radix(_, 16): -1 on a byte that is no hex
\* digit and on overflow of 16 bits.
RECURSIVE HexDigits(_, _)
HexDigits(acc, s) ==
    IF s = <<>> THEN acc
    ELSE LET d == HexDigit(Head(s)) IN
         IF d < 0 \/ acc * 16 + d >= U16 THEN -1
         ELSE HexDigits(acc * 16 + d, Tail(s))

\* u16::from_str_radix(src, 16): an empty string, a lone sign, a '-' sign, a
\* non-digit or an overflow is an error; one leading '+' is accepted.
from_str_radix(src) ==
    IF src = <<>> THEN -1
    ELSE IF Len(src) = 1 /\ Head(src) \in {43, 45} THEN -1
    ELSE IF Head(src) = 43 THEN HexDigits(0, Tail(src))
    ELSE HexDigits(0, src)

\* parse_hex_u16: [ok |-> TRUE, v |-> n] or [ok |-> FALSE, v |-> 0].
parse_hex_u16(s0) ==
    LET s == trim(s0)
        has0x == Len(s) >= 2 /\ ToLower(s[1]) = 48 /\ ToLower(s[2]) = 120
        clean_s == IF has0x THEN SubSeq(s, 3, Len(s)) ELSE s
        n == IF s = <<>> THEN -1 ELSE from_str_radix(clean_s)
    IN IF n < 0 THEN [ok |-> FALSE, v |-> 0] ELSE [ok |-> TRUE, v |-> n]

\* ------------------------------------------------------ bit operations
\* a | b on unsigned integers.
RECURSIVE BitOr(_, _)
BitOr(a, b) ==
    IF a = 0 THEN b
    ELSE IF b = 0 THEN a
    ELSE (IF a % 2 = 1 \/ b % 2 = 1 THEN 1 ELSE 0) + 2 * BitOr(a \div 2, b \div 2)

\* a & b on unsigned integers.
RECURSIVE BitAnd(_, _)
BitAnd(a, b) ==
    IF a = 0 \/ b = 0 THEN 0
    ELSE (IF a % 2 = 1 /\ b % 2 = 1 THEN 1 ELSE 0) + 2 * BitAnd(a \div 2, b \div 2)

\* a << n on u16: the bits shifted out are lost.
Shl16(a, n) == (a * (2 ^ n)) % U16

\* ----------------------------------------------------- control requests
\* The setup packet (and payload) of each vendor request.
NoData == <<>>

Setup(dir, recipient, request, value, index, length, data) ==
    [dir |-> dir, recipient |-> recipient, request |-> request, value |-> value,
     index |-> index, length |-> length, data |-> data]

NoReq == Setup("-", "-", 0, 0, 0, 0, NoData)

req_send_console_cmd(data) ==
    Setup("OUT", "Interface", REQ_SET_DBG_MSG, 0, 0, Len(data), data)

req_set_dbg_msg_init == Setup("OUT", "Interface", REQ_SET_DBG_MSG, 0, 0, 0, NoData)

req_read_reg(addr, offset) ==
    Setup("IN", "Device", REQ_GET_RD_REG, addr, offset, 8, NoData)

\* The packing with its two bytes swapped: (val << 8) | (addr & 0xFF).
WriteRegSwapped(addr, offset, val) ==
    Setup("IN", "Device", REQ_GET_WR_REG,
          BitOr(Shl16(val, 8), BitAnd(addr, 255)), offset, 0, NoData)

\* w_value = ((addr & 0xFF) << 8) | (val as u16), for val: u8.
req_write_reg(addr, offset, val) ==
    Setup("IN", "Device", REQ_GET_WR_REG,
          BitOr(Shl16(BitAnd(addr, 255), 8), val), offset, 0, NoData)

req_get_dbg_msg == Setup("IN", "Device", REQ_GET_DBG_MSG, 0, 0, READ_BUFFER_SIZE, NoData)

\* ---------------------------------------------------------------- errors
\* The transport's outcomes of a control transfer.  On a handle whose device
\* is gone every transfer fails; on a live one it completes, times out or
\* stalls.
TransferErrors(h) ==
    IF h = "alive" THEN {"Timeout", "Stall"} ELSE {"Disconnected"}

\* to_io_err: every transport error becomes an io::Error of kind Other that
\* wraps it.
to_io_err(e) == [kind |-> "Other", inner |-> e]

is_fatal_error(e) == e.kind \in {"BrokenPipe", "ConnectionAborted", "NotConnected"}

\* ----------------------------------------------------------- environment
\* What the operator may type, as the bytes read_line returns (each line
\* with its terminating LF).
Line_w_10_0_FF == <<119, 32, 49, 48, 32, 48, 32, 70, 70, 10>>            \* "w 10 0 FF"
Line_w_110_2_1FF == <<119, 32, 49, 49, 48, 32, 50, 32, 49, 70, 70, 10>>  \* "w 110 2 1FF"
Line_w_0xFF10_FFFF_0 ==
    <<119, 32, 48, 120, 70, 70, 49, 48, 32, 70, 70, 70, 70, 32, 48, 10>> \* "w 0xFF10 FFFF 0"
Line_r_10_0 == <<114, 32, 49, 48, 32, 48, 10>>                           \* "r 10 0"
Line_w_zz_0_0 == <<119, 32, 122, 122, 32, 48, 32, 48, 10>>               \* "w zz 0 0"
Line_zz == <<122, 122, 10>>                                              \* "zz"
Line_q == <<113, 10>>                                                    \* "q"
Line_s == <<115, 10>>                                                    \* "s"
Line_empty == <<10>>                                                     \* ""

RegLines == {Line_w_10_0_FF, Line_w_110_2_1FF, Line_w_0xFF10_FFFF_0, Line_r_10_0,
             Line_w_zz_0_0, Line_zz, Line_q}
LogLines == {Line_s, Line_empty}

\* The sequences over S of length at most n.
SeqsUpTo(S, n) == UNION {[1..k -> S] : k \in 0..n}

\* A byte of the log stream: its value, and whether the firmware produced it
\* as the echo of a console command.
Byte(b, echo) == [b |-> b, echo |-> echo]

\* What the firmware logs on its own: ordinary text ('a'), CR and LF.
LogAlphabet == {97, CR, LF}

\* The firmware's echo of a received command: its bytes, then LF.
Echo(cmd) == [i \in 1..Len(cmd) |-> Byte(cmd[i], TRUE)] \o <<Byte(LF, TRUE)>>

\* The response to a log poll that hands over the first n pending bytes: a
\* NUL-terminated prefix, or a full buffer without a NUL.
FwFrame(stream, n) ==
    SubSeq(stream, 1, n) \o (IF n < READ_BUFFER_SIZE THEN <<Byte(NUL, FALSE)>> ELSE <<>>)

\* The responses that hand over n bytes: behind the NUL the buffer may hold
\* anything, here nothing or a CR.
FwFrames(stream, n) ==
    {FwFrame(stream, n) \o rest :
        rest \in IF n + 1 < READ_BUFFER_SIZE THEN {<<>>, <<Byte(CR, FALSE)>>} ELSE {<<>>}}

\* ------------------------------------------------------------------ state
VARIABLES
    mode,             \* cli.command: "Log" or "Reg"
    supPc,            \* async_main's loop: "connect", "backoff", "run", "exit"
    handle,           \* the Session: "none", "alive", "dead" (its device is gone)
    fails,            \* failures of find_and_open_device since the last session
    supMsg,           \* the last message of the supervisor
    result,           \* what the running mode returned, if it has
    stdin,            \* the lines still unread on standard input
    eof,              \* whether standard input ends after them
    chan,             \* the stdin channel (stdin_tx -> stdin_rx)
    readerPc,         \* the detached reader task: "reading" or "stopped"
    envLeft,          \* how many more events the environment may produce
    shellPc,          \* run_reg_shell: "off", "prompt", "xfer"
    shellLine,        \* input_buf: the line the shell read last
    shellReq,         \* the register transfer in flight
    lineXfers,        \* the transfers issued for the shell's last line
    shellOut,         \* what the shell printed for its last line
    logPc,            \* run_log_console: "off", "init", "running"
    inputPc,          \* input_task: "recv", "send"
    pendingCmd,       \* the command whose transfer is in flight
    suppressing,      \* suppress_echo
    last_char_was_cr, \* logger_task's last_char_was_cr
    printed,          \* the bytes printed by logger_task, in order
    fwStream,         \* the firmware's pending log stream
    sent,             \* the console commands issued, in order
    lost,             \* the log bytes handed over and not pushed to output_buffer
    frames,           \* SpecDecoder: the frames fed to the decoder, in order
    supTrace,         \* SpecDecoder: suppress_echo after each valid byte processed
    hexTok,           \* SpecHex: the argument of parse_hex_u16
    hexRes,           \* SpecHex: what parse_hex_u16 returned for it
    stale             \* how many lines at the head of chan were read from
                      \* standard input before the running session began

supVars == <<mode, supPc, handle, fails, supMsg, result>>
inVars == <<stdin, eof, chan, readerPc, envLeft>>
shellVars == <<shellPc, shellLine, shellReq, lineXfers, shellOut>>
echoVars == <<suppressing, last_char_was_cr, printed>>
logVars == <<logPc, inputPc, pendingCmd, fwStream, sent, lost, frames, supTrace>>
hexVars == <<hexTok, hexRes>>
vars == <<supVars, inVars, shellVars, echoVars, logVars, hexVars, stale>>

\* No call of parse_hex_u16 has returned.
NoHex == [ok |-> FALSE, v |-> -1]

NoResult == [st |-> "none", kind |-> "-", inner |-> "-", by |-> "-"]
OkResult(by) == [st |-> "ok", kind |-> "-", inner |-> "-", by |-> by]
ErrResult(e, by) == [st |-> "err", kind |-> e.kind, inner |-> e.inner, by |-> by]

\* The supervisor's two states, and the end of the program.
Disconnected == supPc \in {"connect", "backoff"}
Active == supPc = "run"
Exited == supPc = "exit"

\* The mode is running: dispatched and not yet returned.
Running == Active /\ result.st = "none"

InitCommon ==
    /\ supPc = "connect" /\ handle = "none" /\ fails = 0 /\ supMsg = "none"
    /\ result = NoResult
    /\ eof \in BOOLEAN
    /\ chan = <<>> /\ readerPc = "reading"
    /\ shellPc = "off" /\ shellLine = <<>> /\ shellReq = NoReq
    /\ lineXfers = <<>> /\ shellOut = "none"
    /\ logPc = "off" /\ inputPc = "recv" /\ pendingCmd = <<>>
    /\ suppressing = FALSE /\ last_char_was_cr = FALSE
    /\ printed = <<>> /\ lost = <<>>
    /\ fwStream = <<>> /\ sent = <<>>
    /\ hexTok = <<>> /\ hexRes = NoHex
    /\ stale = 0

Init ==
    /\ mode \in {"Log", "Reg"}
    /\ stdin \in IF mode = "Log" THEN SeqsUpTo(LogLines, MaxEvents)
                                ELSE SeqsUpTo(RegLines, MaxLines)
    /\ envLeft = IF mode = "Log" THEN MaxEvents - Len(stdin) ELSE MaxEvents
    /\ frames = <<>> /\ supTrace = <<>>
    /\ InitCommon

\* ------------------------------------------------- the stdin reader task
\* read_line fails on bytes that are not UTF-8.
ValidUtf8(line) == \A i \in 1..Len(line) : line[i] < 128

\* One turn of the reader's loop: read_line, then send when it returned Ok.
\* At end of input read_line returns Ok(0) and leaves the line empty.  The
\* send fails only when every receiver is gone, which async_main's own
\* stdin_rx prevents while the program runs.
ReaderRead ==
    /\ readerPc = "reading" /\ ~Exited
    /\ \/ /\ stdin # <<>>
          /\ stdin' = Tail(stdin)
          /\ chan' = IF ValidUtf8(Head(stdin)) THEN Append(chan, Head(stdin)) ELSE chan
          /\ UNCHANGED envLeft
       \/ /\ stdin = <<>> /\ eof /\ envLeft > 0
          /\ chan' = Append(chan, <<>>)
          /\ envLeft' = envLeft - 1
          /\ UNCHANGED stdin
    /\ UNCHANGED <<eof, readerPc, supVars, shellVars, echoVars, logVars, hexVars, stale>>

\* ---------------------------------------------------------- the supervisor
\* find_and_open_device succeeded: the mode is dispatched on the new Session.
\* stdin_rx is the one receiver made at line 77, with whatever the reader
\* task has put into the channel so far.
SupConnectOk ==
    /\ supPc = "connect"
    /\ supPc' = "run" /\ handle' = "alive" /\ supMsg' = "connected"
    /\ result' = NoResult
    /\ IF mode = "Log"
       THEN /\ logPc' = "init"
            /\ UNCHANGED shellVars
       ELSE /\ shellPc' = "prompt" /\ shellLine' = <<>> /\ shellReq' = NoReq
            /\ lineXfers' = <<>> /\ shellOut' = "none"
            /\ UNCHANGED logPc
    /\ UNCHANGED <<mode, fails, inVars, echoVars, inputPc, pendingCmd, fwStream, sent,
                   lost, frames, supTrace, hexVars>>
    /\ stale' = IF mode = "Log" THEN Len(chan) ELSE 0

\* find_and_open_device failed: sleep one second, then retry.
SupConnectFail ==
    /\ supPc = "connect" /\ fails < MaxFails
    /\ supPc' = "backoff" /\ fails' = fails + 1
    /\ UNCHANGED <<mode, handle, supMsg, result, inVars, shellVars, echoVars, logVars, hexVars, stale>>

\* A supervisor that gives up after a failed discovery instead of retrying.
SupBackoffGivesUp ==
    /\ supPc = "backoff"
    /\ supPc' = "exit"
    /\ UNCHANGED <<mode, handle, fails, supMsg, result, inVars, shellVars, echoVars, logVars, hexVars, stale>>

SupBackoff ==
    /\ supPc = "backoff"
    /\ supPc' = "connect"
    /\ UNCHANGED <<mode, handle, fails, supMsg, result, inVars, shellVars, echoVars, logVars, hexVars, stale>>

\* A supervisor without the reconnect loop: any result ends the program.
SupResultAlwaysExits ==
    /\ supPc = "run" /\ result.st # "none"
    /\ supPc' = "exit" /\ supMsg' = "ended" /\ UNCHANGED result
    /\ handle' = "none" /\ fails' = 0
    /\ UNCHANGED <<mode, inVars, shellVars, echoVars, logVars, hexVars>>
    /\ stale' = 0

\* A supervisor whose Session outlives its iteration.
SupResultKeepsHandle ==
    /\ supPc = "run" /\ result.st # "none"
    /\ IF result.st = "ok"
       THEN supPc' = "exit" /\ supMsg' = "ended" /\ UNCHANGED result
       ELSE supPc' = "connect" /\ supMsg' = "reconnect" /\ result' = NoResult
    /\ fails' = 0
    /\ UNCHANGED <<mode, handle, inVars, shellVars, echoVars, logVars, hexVars>>
    /\ stale' = 0

\* The mode returned: Ok ends the program, Err starts the next iteration.
\* The Session's handle is dropped with the iteration.
SupResult ==
    /\ supPc = "run" /\ result.st # "none"
    /\ IF result.st = "ok"
       THEN supPc' = "exit" /\ supMsg' = "ended" /\ UNCHANGED result
       ELSE supPc' = "connect" /\ supMsg' = "reconnect" /\ result' = NoResult
    /\ handle' = "none" /\ fails' = 0
    /\ UNCHANGED <<mode, inVars, shellVars, echoVars, logVars, hexVars>>
    /\ stale' = 0

\* The device is unplugged or reset under a running session.
Unplug ==
    /\ Running /\ handle = "alive"
    /\ handle' = "dead" /\ fwStream' = <<>>
    /\ UNCHANGED <<mode, supPc, fails, supMsg, result, inVars, shellVars, echoVars,
                   logPc, inputPc, pendingCmd, sent, lost, frames, supTrace, hexVars, stale>>

\* ------------------------------------------------------ the Register Shell
\* What one input line makes the shell do: "continue" (an empty line),
\* "xfer" (a register transfer, req), "silent" (an r or w line with a token
\* that is no hex number: nothing is printed), "exit", "usage".
ShellCommand(line) ==
    LET l == trim(line)
        parts == split_whitespace(l)
        p(i) == parse_hex_u16(parts[i])
    IN IF l = <<>> THEN [act |-> "continue", req |-> NoReq]
       ELSE IF Len(parts) = 3 /\ parts[1] = <<114>>
       THEN IF p(2).ok /\ p(3).ok
            THEN [act |-> "xfer", req |-> req_read_reg(p(2).v, p(3).v)]
            ELSE [act |-> "silent", req |-> NoReq]
       ELSE IF Len(parts) = 4 /\ parts[1] = <<119>>
       THEN IF p(2).ok /\ p(3).ok /\ p(4).ok
            THEN [act |-> "xfer", req |-> req_write_reg(p(2).v, p(3).v, p(4).v % U8)]
            ELSE [act |-> "silent", req |-> NoReq]
       ELSE IF parts \in {<<<<101, 120, 105, 116>>>>, <<<<113, 117, 105, 116>>>>, <<<<113>>>>}
       THEN [act |-> "exit", req |-> NoReq]
       ELSE [act |-> "usage", req |-> NoReq]

\* ShellCommand of every line standard input can hold, computed once.
ShellCommands == [line \in RegLines \cup {<<>>} |-> ShellCommand(line)]

\* One turn of the shell's loop up to its transfer: the prompt, read_line
\* (Ok(0) with an empty line at the end of input, Err on bytes that are not
\* UTF-8) and the match on the tokens.
ShellReadLine ==
    /\ Running /\ mode = "Reg" /\ shellPc = "prompt"
    /\ stdin # <<>> \/ eof
    /\ LET line == IF stdin # <<>> THEN Head(stdin) ELSE <<>>
           c == ShellCommands[line]
       IN /\ stdin' = IF stdin # <<>> THEN Tail(stdin) ELSE stdin
          /\ IF ~ValidUtf8(line)
             THEN /\ result' = OkResult("shell")
                  /\ shellLine' = <<>> /\ lineXfers' = <<>> /\ shellOut' = "none"
                  /\ shellPc' = "off" /\ shellReq' = NoReq
             ELSE /\ shellLine' = line
                  /\ lineXfers' = IF c.act = "xfer" THEN <<c.req>> ELSE <<>>
                  /\ shellOut' = IF c.act = "usage" THEN "usage" ELSE "none"
                  /\ shellPc' = CASE c.act = "xfer" -> "xfer"
                                   [] c.act = "exit" -> "off"
                                   [] OTHER -> shellPc
                  /\ shellReq' = c.req
                  /\ result' = IF c.act = "exit" THEN OkResult("shell") ELSE result
    /\ UNCHANGED <<mode, supPc, handle, fails, supMsg, eof, chan, readerPc, envLeft,
                   echoVars, logVars, hexVars, stale>>

\* The register transfer completed.
ShellXferOk ==
    /\ Running /\ mode = "Reg" /\ shellPc = "xfer" /\ handle = "alive"
    /\ shellOut' = IF shellReq.request = REQ_GET_RD_REG THEN "read" ELSE "write_done"
    /\ shellPc' = "prompt" /\ shellReq' = NoReq
    /\ UNCHANGED <<supVars, inVars, shellLine, lineXfers, echoVars, logVars, hexVars, stale>>

\* The register transfer failed: the error is printed, and returned when
\* is_fatal_error says so.
ShellXferErr ==
    /\ Running /\ mode = "Reg" /\ shellPc = "xfer"
    /\ \E e \in TransferErrors(handle) :
         LET err == to_io_err(e) IN
         /\ shellOut' = IF shellReq.request = REQ_GET_RD_REG
                        THEN "read_error" ELSE "write_error"
         /\ IF is_fatal_error(err)
            THEN result' = ErrResult(err, "shell") /\ shellPc' = "off" /\ shellReq' = NoReq
            ELSE shellPc' = "prompt" /\ shellReq' = NoReq /\ UNCHANGED result
    /\ UNCHANGED <<mode, supPc, handle, fails, supMsg, inVars, shellLine, lineXfers,
                   echoVars, logVars, hexVars, stale>>

\* ---------------------------------------------------------- the Log Console
\* The bytes of a stream that are no echo.
IsLogByte(x) == ~x.echo
LogBytes(s) == SelectSeq(s, IsLogByte)

\* data.iter().position(|&x| x == 0).unwrap_or(data.len())
RECURSIVE ValidLenFrom(_, _)
ValidLenFrom(data, i) ==
    IF i > Len(data) THEN Len(data)
    ELSE IF data[i].b = NUL THEN i - 1
    ELSE ValidLenFrom(data, i + 1)

\* The valid length taken for the length of the buffer.
ValidLenIgnoresNul(data) == Len(data)

ValidLen(data) == ValidLenFrom(data, 1)

\* The terminator test without last_char_was_cr: any LF ends the echo.
DecodeByteAnyLF(st, x) ==
    LET clear == st.sup /\ x.b = LF
        sup == st.sup /\ ~clear
    IN [sup |-> sup,
        cr |-> (x.b = CR),
        out |-> IF st.sup THEN st.out ELSE Append(st.out, x),
        drop |-> IF st.sup THEN Append(st.drop, x) ELSE st.drop,
        trace |-> Append(st.trace, sup)]

\* A loop without the store(false): the echo never ends.
DecodeByteNeverClears(st, x) ==
    [sup |-> st.sup,
     cr |-> (x.b = CR),
     out |-> IF st.sup THEN st.out ELSE Append(st.out, x),
     drop |-> IF st.sup THEN Append(st.drop, x) ELSE st.drop,
     trace |-> Append(st.trace, st.sup)]

\* A loop that updates last_char_was_cr only for the bytes it prints.
DecodeByteCrWhenPrinted(st, x) ==
    LET clear == st.sup /\ x.b = LF /\ st.cr
        sup == st.sup /\ ~clear
    IN [sup |-> sup,
        cr |-> IF st.sup THEN st.cr ELSE x.b = CR,
        out |-> IF st.sup THEN st.out ELSE Append(st.out, x),
        drop |-> IF st.sup THEN Append(st.drop, x) ELSE st.drop,
        trace |-> Append(st.trace, sup)]

\* The body of `for &b in valid_bytes`: st is suppress_echo (sup),
\* last_char_was_cr (cr), output_buffer (out), the bytes not pushed to it
\* (drop) and the values of suppress_echo after each byte so far (trace).
DecodeByte(st, x) ==
    LET clear == st.sup /\ x.b = LF /\ st.cr
        sup == st.sup /\ ~clear
    IN [sup |-> sup,
        cr |-> (x.b = CR),
        out |-> IF st.sup THEN st.out ELSE Append(st.out, x),
        drop |-> IF st.sup THEN Append(st.drop, x) ELSE st.drop,
        trace |-> Append(st.trace, sup)]

RECURSIVE Decode(_, _)
Decode(st, bytes) ==
    IF bytes = <<>> THEN st ELSE Decode(DecodeByte(st, Head(bytes)), Tail(bytes))

\* logger_task's Ok(data) arm: the loop over the valid bytes, then the print
\* of output_buffer.  It has no suspension point, so input_task cannot run in
\* the middle of it.  (An empty valid prefix only yields.)
LoggerLoop(frame) ==
    LET valid_bytes == SubSeq(frame, 1, ValidLen(frame)) IN
    Decode([sup |-> suppressing, cr |-> last_char_was_cr,
            out |-> <<>>, drop |-> <<>>, trace |-> <<>>], valid_bytes)

LoggerProcess(frame) ==
    LET r == LoggerLoop(frame)
    IN /\ suppressing' = r.sup
       /\ last_char_was_cr' = r.cr
       /\ printed' = printed \o r.out

\* logger_task's clone of the interface: it lives in the task, from its
\* creation until the race drops the task.
log_interface == IF logPc = "running" THEN handle ELSE "none"

\* run_log_console returns res: the race is over, and both tasks and
\* suppress_echo are dropped.
LogReturn(res) ==
    /\ result' = res
    /\ logPc' = "off" /\ inputPc' = "recv" /\ pendingCmd' = <<>>
    /\ suppressing' = FALSE /\ last_char_was_cr' = FALSE

\* run_log_console up to the race: initLog (a failure only warns), then a
\* new suppress_echo and the two tasks.
LogInit ==
    /\ Running /\ mode = "Log" /\ logPc = "init"
    /\ logPc' = "running" /\ inputPc' = "recv" /\ pendingCmd' = <<>>
    /\ suppressing' = FALSE /\ last_char_was_cr' = FALSE
    /\ UNCHANGED <<supVars, inVars, shellVars, printed,
                   fwStream, sent, lost, frames, supTrace, hexVars, stale>>

\* The firmware logs a byte.
FwEmit ==
    /\ Running /\ mode = "Log" /\ logPc = "running" /\ handle = "alive"
    /\ envLeft > 0
    /\ \E b \in LogAlphabet : fwStream' = Append(fwStream, Byte(b, FALSE))
    /\ envLeft' = envLeft - 1
    /\ UNCHANGED <<supVars, stdin, eof, chan, readerPc, shellVars, echoVars, logPc, inputPc, pendingCmd, sent,
                   lost, frames, supTrace, hexVars, stale>>

\* A logger_task that is detached instead of raced: it keeps polling after
\* run_log_console has returned.
LoggerPollDetached ==
    /\ Active /\ mode = "Log" /\ logPc \in {"running", "off"} /\ handle = "alive"
    /\ \E n \in 0..Min(Len(fwStream), READ_BUFFER_SIZE) :
       \E frame \in FwFrames(fwStream, n) :
         /\ LoggerProcess(frame)
         /\ fwStream' = SubSeq(fwStream, n + 1, Len(fwStream))
         /\ lost' = lost \o LogBytes(LoggerLoop(frame).drop)
    /\ UNCHANGED <<supVars, inVars, shellVars, logPc, inputPc, pendingCmd, sent,
                   frames, supTrace, hexVars, stale>>

\* req_get_dbg_msg returned a frame and logger_task processed it.
LoggerPollOk ==
    /\ Running /\ mode = "Log" /\ logPc = "running" /\ handle = "alive"
    /\ \E n \in 0..Min(Len(fwStream), READ_BUFFER_SIZE) :
       \E frame \in FwFrames(fwStream, n) :
         /\ LoggerProcess(frame)
         /\ fwStream' = SubSeq(fwStream, n + 1, Len(fwStream))
         /\ lost' = lost \o LogBytes(LoggerLoop(frame).drop)
    /\ UNCHANGED <<supVars, inVars, shellVars, logPc, inputPc, pendingCmd, sent,
                   frames, supTrace, hexVars, stale>>

\* req_get_dbg_msg failed: a TimedOut error is retried after 100 ms, any
\* other error is returned.
LoggerPollErr ==
    /\ Running /\ mode = "Log" /\ logPc = "running"
    /\ \E e \in TransferErrors(handle) :
         LET err == to_io_err(e) IN
         IF err.kind = "TimedOut"
         THEN UNCHANGED <<result, logPc, inputPc, pendingCmd, suppressing, last_char_was_cr>>
         ELSE LogReturn(ErrResult(err, "logger"))
    /\ UNCHANGED <<mode, supPc, handle, fails, supMsg, inVars, shellVars, printed,
                   fwStream, sent, lost, frames, supTrace, hexVars, stale>>

\* An input_task that forgets input_suppress.store(true).
InputRecvNoStore ==
    /\ Running /\ mode = "Log" /\ logPc = "running" /\ inputPc = "recv"
    /\ chan # <<>>
    /\ chan' = Tail(chan)
    /\ inputPc' = "send" /\ pendingCmd' = Append(trim(Head(chan)), CR)
    /\ sent' = Append(sent, Append(trim(Head(chan)), CR))
    /\ UNCHANGED <<supVars, stdin, eof, readerPc, envLeft, shellVars, echoVars,
                   logPc, fwStream, lost, frames, supTrace, hexVars>>
    /\ stale' = IF stale > 0 THEN stale - 1 ELSE stale

\* input_task received from the channel: a line sets suppress_echo and
\* starts the send of the trimmed line plus CR; a closed channel (every
\* sender dropped) ends the session with Ok.
InputRecv ==
    /\ Running /\ mode = "Log" /\ logPc = "running" /\ inputPc = "recv"
    /\ chan # <<>> \/ readerPc = "stopped"
    /\ IF chan # <<>>
       THEN LET cmd_to_send == Append(trim(Head(chan)), CR) IN
            /\ chan' = Tail(chan)
            /\ suppressing' = TRUE
            /\ inputPc' = "send" /\ pendingCmd' = cmd_to_send
            /\ sent' = Append(sent, cmd_to_send)
            /\ UNCHANGED <<result, logPc, last_char_was_cr>>
       ELSE /\ LogReturn(OkResult("input"))
            /\ UNCHANGED <<chan, sent>>
    /\ UNCHANGED <<mode, supPc, handle, fails, supMsg, stdin, eof, readerPc, envLeft,
                   shellVars, printed, fwStream, lost, frames, supTrace, hexVars>>
    /\ stale' = IF chan # <<>> /\ stale > 0 THEN stale - 1 ELSE stale

\* req_send_console_cmd completed: the firmware has the command and echoes it.
InputSendOk ==
    /\ Running /\ mode = "Log" /\ logPc = "running" /\ inputPc = "send"
    /\ handle = "alive"
    /\ fwStream' = fwStream \o Echo(pendingCmd)
    /\ inputPc' = "recv" /\ pendingCmd' = <<>>
    /\ UNCHANGED <<supVars, inVars, shellVars, echoVars, logPc, sent,
                   lost, frames, supTrace, hexVars, stale>>

\* req_send_console_cmd failed: the error is returned.
InputSendErr ==
    /\ Running /\ mode = "Log" /\ logPc = "running" /\ inputPc = "send"
    /\ \E e \in TransferErrors(handle) : LogReturn(ErrResult(to_io_err(e), "input"))
    /\ UNCHANGED <<mode, supPc, handle, fails, supMsg, inVars, shellVars, printed,
                   fwStream, sent, lost, frames, supTrace, hexVars, stale>>

\* ------------------------------------------------------------- the program
Next ==
    \/ ReaderRead
    \/ SupConnectOk \/ SupConnectFail \/ SupBackoff \/ SupResult
    \/ Unplug
    \/ ShellReadLine \/ ShellXferOk \/ ShellXferErr
    \/ LogInit \/ FwEmit \/ LoggerPollOk \/ LoggerPollErr
    \/ InputRecv \/ InputSendOk \/ InputSendErr

Spec == Init /\ [][Next]_vars

\* The supervisor's loop keeps running: find_and_open_device returns and the
\* one-second timer fires.
FairSpec ==
    /\ Spec
    /\ WF_vars(SupConnectOk \/ SupConnectFail)
    /\ WF_vars(SupBackoff)

\* ------------------------------------- one Log Console session on its own
\* run_log_console from its call to its return: the first session of a run
\* in Log mode, dispatched before the reader task has read anything.
InitSession ==
    /\ mode = "Log" /\ supPc = "run" /\ handle = "alive" /\ fails = 0
    /\ supMsg = "connected" /\ result = NoResult
    /\ stdin \in SeqsUpTo(LogLines, MaxEvents)
    /\ envLeft = MaxEvents - Len(stdin)
    /\ eof \in BOOLEAN
    /\ chan = <<>> /\ readerPc = "reading"
    /\ shellPc = "off" /\ shellLine = <<>> /\ shellReq = NoReq
    /\ lineXfers = <<>> /\ shellOut = "none"
    /\ logPc = "init" /\ inputPc = "recv" /\ pendingCmd = <<>>
    /\ suppressing = FALSE /\ last_char_was_cr = FALSE
    /\ printed = <<>> /\ lost = <<>>
    /\ fwStream = <<>> /\ sent = <<>>
    /\ frames = <<>> /\ supTrace = <<>>
    /\ hexTok = <<>> /\ hexRes = NoHex
    /\ stale = 0

NextSession ==
    \/ ReaderRead
    \/ Unplug
    \/ LogInit \/ FwEmit \/ LoggerPollOk \/ LoggerPollErr
    \/ InputRecv \/ InputSendOk \/ InputSendErr

SpecSession == InitSession /\ [][NextSession]_vars

\* The device keeps answering the log polls of the session: as long as it
\* has log bytes pending, logger_task's loop gets them.
FairSpecLog ==
    /\ SpecSession
    /\ WF_vars(LoggerPollOk)

\* The Register Shell and the supervisor keep running: read_line returns
\* when there is a line or the input has ended, transfers complete, and the
\* supervisor handles the result of the mode.
FairSpecReg ==
    /\ Spec
    /\ WF_vars(ShellReadLine)
    /\ WF_vars(ShellXferOk \/ ShellXferErr)
    /\ WF_vars(SupResult)

\* --------------------------------------------- the decoder on its own
\* The echo-suppression decoder of logger_task fed arbitrary frames: a Log
\* Console session that has processed no frame yet, either before any
\* command (suppress_echo false) or right after input_task handled its first
\* line (suppress_echo true), and in which no further line arrives.
DecAlphabet == {97, CR, LF, NUL}

DecFrames ==
    {[i \in DOMAIN f |-> Byte(f[i], FALSE)] : f \in SeqsUpTo(DecAlphabet, MaxFrameLen)}

InitDecoder ==
    /\ mode = "Log" /\ supPc = "run" /\ handle = "alive" /\ fails = 0
    /\ supMsg = "connected" /\ result = NoResult
    /\ stdin = <<>> /\ eof = FALSE /\ chan = <<>> /\ readerPc = "reading" /\ envLeft = 0
    /\ shellPc = "off" /\ shellLine = <<>> /\ shellReq = NoReq
    /\ lineXfers = <<>> /\ shellOut = "none"
    /\ logPc = "running" /\ inputPc = "recv" /\ pendingCmd = <<>>
    /\ suppressing \in BOOLEAN
    /\ sent = IF suppressing THEN <<Append(trim(Line_s), CR)>> ELSE <<>>
    /\ last_char_was_cr = FALSE
    /\ printed = <<>> /\ supTrace = <<>> /\ lost = <<>> /\ frames = <<>>
    /\ fwStream = <<>>
    /\ hexTok = <<>> /\ hexRes = NoHex
    /\ stale = 0

DecFeed ==
    /\ Len(frames) < MaxFrames
    /\ \E frame \in DecFrames :
         /\ LoggerProcess(frame)
         /\ frames' = Append(frames, frame)
         /\ supTrace' = supTrace \o LoggerLoop(frame).trace
    /\ UNCHANGED <<supVars, inVars, shellVars, logPc, inputPc, pendingCmd, fwStream, sent,
                   lost, hexVars, stale>>

NextDecoder == DecFeed

SpecDecoder == InitDecoder /\ [][NextDecoder]_vars

\* --------------------------------------------- parse_hex_u16 on its own
\* parse_hex_u16 applied to one token, as the Register Shell applies it to
\* the tokens of a line: '0', '2', 'A', 'a', 'x', 'X', 'z' and '+'.
HexAlphabet == {48, 50, 65, 97, 120, 88, 122, 43}

InitHex ==
    /\ mode = "Reg" /\ supPc = "run" /\ handle = "alive" /\ fails = 0
    /\ supMsg = "connected" /\ result = NoResult
    /\ stdin = <<>> /\ eof = FALSE /\ chan = <<>> /\ readerPc = "reading" /\ envLeft = 0
    /\ shellPc = "prompt" /\ shellLine = <<>> /\ shellReq = NoReq
    /\ lineXfers = <<>> /\ shellOut = "none"
    /\ logPc = "off" /\ inputPc = "recv" /\ pendingCmd = <<>>
    /\ suppressing = FALSE /\ last_char_was_cr = FALSE
    /\ printed = <<>> /\ supTrace = <<>> /\ lost = <<>> /\ frames = <<>>
    /\ fwStream = <<>> /\ sent = <<>>
    /\ hexTok \in SeqsUpTo(HexAlphabet, MaxTokLen) /\ hexRes = NoHex
    /\ stale = 0

HexParse ==
    /\ hexRes = NoHex
    /\ hexRes' = parse_hex_u16(hexTok)
    /\ UNCHANGED <<supVars, inVars, shellVars, echoVars, logVars, hexTok, stale>>

NextHex == HexParse

SpecHex == InitHex /\ [][NextHex]_vars

\* ------------------------------------------------------------ properties
\* The bytes of a frame before its first NUL (all of it when it has none).
PrefixBeforeNul(frame) ==
    LET nuls == {i \in 1..Len(frame) : frame[i].b = NUL} IN
    IF nuls = {} THEN frame
    ELSE SubSeq(frame, 1, (CHOOSE i \in nuls : \A j \in nuls : i <= j) - 1)

\* The logical stream of a sequence of frames: their prefixes, in order.
RECURSIVE LogicalStream(_)
LogicalStream(fs) ==
    IF fs = <<>> THEN <<>> ELSE PrefixBeforeNul(Head(fs)) \o LogicalStream(Tail(fs))

\* The position of the LF of the first CR LF pair of a stream, or 0.
FirstCRLF(s) ==
    LET ps == {i \in 2..Len(s) : s[i - 1].b = CR /\ s[i].b = LF} IN
    IF ps = {} THEN 0 ELSE CHOOSE i \in ps : \A j \in ps : i <= j

\* C3: the decoder started with suppressing = true drops every byte up to
\* and including the first CR LF pair of the logical stream, across frame
\* boundaries too; suppressing is true after every byte before that LF,
\* false from that LF on, and the bytes after it are printed.
C3_SuppressUntilFirstCRLF ==
    sent # <<>> =>
        LET s == LogicalStream(frames)
            k == FirstCRLF(s)
        IN /\ Len(supTrace) = Len(s)
           /\ \A i \in 1..Len(s) : supTrace[i] = (k = 0 \/ i < k)
           /\ suppressing = (k = 0)
           /\ printed = IF k = 0 THEN <<>> ELSE SubSeq(s, k + 1, Len(s))

\* A CR that ends one frame, the LF that starts the next, a printed byte after.
C3_Witness ==
    /\ sent # <<>> /\ Len(frames) = 2
    /\ frames[1] = <<Byte(97, FALSE), Byte(CR, FALSE)>>
    /\ frames[2] = <<Byte(LF, FALSE), Byte(97, FALSE)>>
    /\ ~suppressing /\ printed = <<Byte(97, FALSE)>>
    /\ supTrace = <<TRUE, TRUE, FALSE, FALSE>>

C1_NoEchoPrinted == ~eof => \A i \in DOMAIN printed : ~printed[i].echo

\* C2: every log byte the firmware delivered that is no part of an echo is
\* printed exactly once and in the order received.  The loop pushes each
\* valid byte to output_buffer in order or not at all, so this is: no log
\* byte is left out.  Stated for the runs in which standard input stays open.
C2_LogBytesPrinted == ~eof => lost = <<>>

\* C5: in both modes, a transfer that fails on the handle of an unplugged
\* device ends the session with an error result.
C5_DeadHandleEndsSession ==
    [][(Running /\ handle = "dead"
        /\ \/ mode = "Reg" /\ shellPc = "xfer"
                           /\ shellOut' \in {"read_error", "write_error"}
           \/ mode = "Log" /\ result' # result)
       => result'.st = "err"]_vars

\* C6: a timeout of pollLog never ends the Log Console session.
C6_PollTimeoutNeverEndsSession ==
    ~(result.st = "err" /\ result.by = "logger" /\ result.inner = "Timeout")

\* C7: in Log mode, when the input activity meets the end of the operator's
\* input it sends no command and ends the session with a clean result.
C7_EofEndsSessionCleanly ==
    [][(mode = "Log" /\ Running /\ inputPc = "recv"
        /\ chan # <<>> /\ Head(chan) = <<>> /\ chan' = Tail(chan))
       => (sent' = sent /\ result'.st = "ok")]_vars

\* C8: after at most MaxFails failed discoveries the supervisor reaches
\* Active and dispatches the mode, and it never ends the program while
\* Disconnected.
C8_ReconnectLiveness ==
    /\ Disconnected ~> (Active /\ (logPc = "init" \/ shellPc = "prompt"))
    /\ [][Disconnected => ~Exited']_vars

\* Active after MaxFails failed discoveries.
C8_Witness ==
    /\ Active /\ fails = MaxFails /\ MaxFails > 0
    /\ handle = "alive" /\ supMsg = "connected"

\* C9: the supervisor ends the program exactly on a clean completion of the
\* mode; on an error it emits the reconnect message, drops the Session and
\* is Disconnected again, about to run discovery.
C9_ExitIffCleanCompletion ==
    /\ [][(~Exited /\ Exited') => (Active /\ result.st = "ok")]_vars
    /\ [][(Active /\ result.st = "ok" /\ supPc' # supPc) => Exited']_vars
    /\ [][(Active /\ result.st = "err" /\ supPc' # supPc)
          => /\ supPc' = "connect" /\ supMsg' = "reconnect"
             /\ handle' = "none" /\ result' = NoResult]_vars

\* Disconnected again after a session that ended with an error.
C9_Witness ==
    /\ supPc = "connect" /\ supMsg = "reconnect" /\ handle = "none"
    /\ result = NoResult

\* C10: a well-formed `w <addr> <offset> <value>` line issues exactly one
\* write-register transfer: request 0x11, wValue = (addr mod 256) * 256 +
\* (value mod 256), wIndex = offset, length 0; so 0x10 and 0x110 give the
\* same wValue, 0x10FF for the value FF.
WriteLines ==
    {[line |-> Line_w_10_0_FF, addr |-> 16, offset |-> 0, value |-> 255],
     [line |-> Line_w_110_2_1FF, addr |-> 272, offset |-> 2, value |-> 511],
     [line |-> Line_w_0xFF10_FFFF_0, addr |-> 65296, offset |-> 65535, value |-> 0]}

C10_WriteRegisterPacking ==
    /\ \A w \in WriteLines :
         (mode = "Reg" /\ shellLine = w.line) =>
             /\ Len(lineXfers) = 1
             /\ lineXfers[1].request = 17
             /\ lineXfers[1].value = (w.addr % 256) * 256 + (w.value % 256)
             /\ lineXfers[1].index = w.offset
             /\ lineXfers[1].length = 0
             /\ lineXfers[1].dir = "IN"
    /\ (mode = "Reg" /\ shellLine \in {Line_w_10_0_FF, Line_w_110_2_1FF}) =>
           lineXfers[1].value = 4351
    /\ \A i \in DOMAIN lineXfers :
         lineXfers[i].request = 17 => \E w \in WriteLines : shellLine = w.line

\* The write of `w 110 2 1FF` has completed.
C10_Witness ==
    /\ mode = "Reg" /\ shellLine = Line_w_110_2_1FF
    /\ shellPc = "prompt" /\ shellOut = "write_done"
    /\ Len(lineXfers) = 1 /\ lineXfers[1].value = 4351 /\ lineXfers[1].index = 2

\* A hexadecimal digit of either case, and its value.
IsHexDigitChar(c) == c \in (48..57) \cup (65..70) \cup (97..102)

DigitValue(c) ==
    CASE c \in 48..57 -> c - 48
      [] c \in 65..70 -> c - 65 + 10
      [] c \in 97..102 -> c - 97 + 10
      [] OTHER -> 0

\* The token without its optional 0x or 0X.
WithoutPrefix(t) ==
    IF Len(t) >= 2 /\ t[1] = 48 /\ t[2] \in {120, 88} THEN SubSeq(t, 3, Len(t)) ELSE t

\* The number a string of hex digits denotes.
RECURSIVE HexValue(_)
HexValue(d) ==
    IF d = <<>> THEN 0 ELSE HexValue(SubSeq(d, 1, Len(d) - 1)) * 16 + DigitValue(d[Len(d)])

WellFormedHex(t) ==
    LET d == WithoutPrefix(t) IN
    /\ d # <<>>
    /\ \A i \in DOMAIN d : IsHexDigitChar(d[i])
    /\ HexValue(d) < 65536

\* C11: parse_hex_u16 returns the value of a token that is an optional 0x or
\* 0X and then one or more hex digits denoting a 16-bit value, and an error
\* for every empty token and every token with a character that is no hex
\* digit; "0x2A", "0X2a" and "2a" give 42, "" and "zz" fail.
C11_HexParsing ==
    hexRes # NoHex =>
        /\ WellFormedHex(hexTok) =>
               hexRes = [ok |-> TRUE, v |-> HexValue(WithoutPrefix(hexTok))]
        /\ hexTok \in {<<48, 120, 50, 65>>, <<48, 88, 50, 97>>, <<50, 97>>} =>
               hexRes = [ok |-> TRUE, v |-> 42]
        /\ hexTok \in {<<>>, <<122, 122>>} => ~hexRes.ok
        /\ (\E i \in DOMAIN WithoutPrefix(hexTok) :
               ~IsHexDigitChar(WithoutPrefix(hexTok)[i])) => ~hexRes.ok

\* A line the Register Shell has a command for: r with two hex numbers, w
\* with three, or one of the exit words.
WellFormedLine(line) ==
    LET parts == split_whitespace(trim(line)) IN
    \/ /\ Len(parts) = 3 /\ parts[1] = <<114>>
       /\ WellFormedHex(parts[2]) /\ WellFormedHex(parts[3])
    \/ /\ Len(parts) = 4 /\ parts[1] = <<119>>
       /\ WellFormedHex(parts[2]) /\ WellFormedHex(parts[3]) /\ WellFormedHex(parts[4])
    \/ parts \in {<<<<101, 120, 105, 116>>>>, <<<<113, 117, 105, 116>>>>, <<<<113>>>>}

\* C12: in the Register Shell a non-empty line that is no well-formed r, w
\* or exit command prints an error message, issues no transfer and leaves
\* the shell running at the next prompt.
C12_MalformedLineReported ==
    (mode = "Reg" /\ trim(shellLine) # <<>> /\ ~WellFormedLine(shellLine)) =>
        /\ shellOut = "usage"
        /\ lineXfers = <<>>
        /\ shellPc = "prompt" /\ Running

\* C13: nothing carries over between the supervisor's iterations: a session
\* starts on a newly opened handle with suppress_echo and last_char_was_cr
\* false, and no line entered before the session began (in an earlier
\* session or while disconnected) is sent as a command in it.  Stated for
\* the lines of the operator, in the runs in which standard input stays open.
C13_NothingCarriesOver ==
    /\ [][(Disconnected /\ Active') => handle' = "alive"]_vars
    /\ [][(logPc = "init" /\ logPc' = "running")
            => (~suppressing' /\ ~last_char_was_cr')]_vars
    /\ [][(~eof /\ Running /\ sent' # sent) => stale = 0]_vars

\* C14: at most one Session exists at a time: the supervisor holds one
\* exactly while it is Active, logger_task's copy exists only inside that
\* session, and when discovery runs (so before any new Session is opened)
\* both are gone.
C14_OneSession ==
    /\ Active <=> handle # "none"
    /\ log_interface # "none" => (Running /\ mode = "Log")
    /\ Disconnected => (handle = "none" /\ log_interface = "none")

\* A second Log Console session has been dispatched on its new Session:
\* the earlier one printed something and returned an error.
C14_Witness ==
    /\ Running /\ mode = "Log" /\ logPc = "init" /\ handle = "alive"
    /\ printed # <<>> /\ supMsg = "connected"

\* The Log Console session has ended: run_log_console returned, or was not
\* yet called again.
LogEnded == mode = "Log" /\ logPc = "off"

\* C15: the result of a Log Console session is set once, by the task that
\* finishes first, and from then on the other task takes no step: no poll
\* and no send can happen, nothing is printed and suppress_echo and
\* last_char_was_cr are not touched.
C15_RaceAbandonsOtherTask ==
    /\ [][(mode = "Log" /\ result.st = "none" /\ result'.st # "none")
            => (logPc = "running" /\ logPc' = "off"
                /\ result'.by \in {"logger", "input"})]_vars
    /\ [][(mode = "Log" /\ result.st # "none" /\ result' # result)
            => (supPc = "run" /\ supPc' = "connect" /\ result' = NoResult)]_vars
    /\ [][LogEnded => /\ printed' = printed /\ sent' = sent /\ lost' = lost
                      /\ suppressing' = suppressing
                      /\ last_char_was_cr' = last_char_was_cr
                      /\ inputPc' = inputPc /\ pendingCmd' = pendingCmd]_vars
    /\ [](LogEnded => /\ ~ENABLED LoggerPollOk /\ ~ENABLED LoggerPollErr
                      /\ ~ENABLED InputRecv /\ ~ENABLED InputSendOk
                      /\ ~ENABLED InputSendErr)

\* input_task ended the session with an error while log bytes were still
\* pending on the live device: logger_task never polls them.
C15_Witness ==
    /\ Active /\ LogEnded /\ result.st = "err" /\ result.by = "input"
    /\ handle = "alive" /\ fwStream # <<>>

\* The valid bytes logger_task processes in a step of a running session:
\* what the step takes from the front of the firmware's stream.
Consumed ==
    IF handle' = handle /\ Len(fwStream') < Len(fwStream)
    THEN SubSeq(fwStream, 1, Len(fwStream) - Len(fwStream'))
    ELSE <<>>

\* Some byte of bytes is an LF whose preceding processed byte was CR.
HasLFAfterCR(bytes, cr) ==
    \E i \in DOMAIN bytes :
        bytes[i].b = LF /\ (IF i = 1 THEN cr ELSE bytes[i - 1].b = CR)

\* C16: within a Log Console session suppress_echo goes from false to true
\* only when input_task receives a line, which is before that line's send
\* is issued, and every received line sets it; it goes from true to false
\* only when logger_task processes an LF whose preceding processed byte was
\* CR, and then it does; no other step changes it.
C16_FlagWriters ==
    /\ [][(logPc = "running" /\ logPc' = "running" /\ ~suppressing /\ suppressing')
            => (inputPc = "recv" /\ inputPc' = "send" /\ chan # <<>>
                /\ sent' = Append(sent, Append(trim(Head(chan)), CR)))]_vars
    /\ [][(logPc = "running" /\ logPc' = "running" /\ sent' # sent)
            => (suppressing' /\ inputPc' = "send")]_vars
    /\ [][(logPc = "running" /\ logPc' = "running" /\ suppressing)
            => (suppressing' <=> ~HasLFAfterCR(Consumed, last_char_was_cr))]_vars

\* input_task has set the flag and sent the command, and logger_task has
\* processed the CR of the echo with the flag still set: the LF is next.
C16_Witness ==
    /\ Running /\ logPc = "running" /\ inputPc = "recv"
    /\ suppressing /\ last_char_was_cr /\ sent # <<>>
    /\ fwStream = <<Byte(LF, TRUE)>>

\* C17: in Reg mode every line entered on standard input is read by the
\* Register Shell, once and in order: while the shell runs, a step that
\* takes a line from standard input is the shell's read_line at its prompt,
\* and takes the oldest line; the reader task takes none.
C17_ShellReadsEveryLine ==
    [][(mode = "Reg" /\ Running /\ stdin' # stdin)
        => (shellPc = "prompt" /\ chan' = chan
            /\ stdin' = Tail(stdin) /\ shellLine' = Head(stdin))]_vars

\* C18: last_char_was_cr is false when the session starts, after a step
\* that processes valid bytes it tells whether the last of them was CR,
\* printed or not, and every other step of the session (a frame with no
\* valid byte, whatever follows the NUL, a failed poll, input_task) leaves
\* it as it is.
C18_LastCharWasCR ==
    /\ [][(logPc = "init" /\ logPc' = "running") => ~last_char_was_cr']_vars
    /\ [][(logPc = "running" /\ logPc' = "running")
            => last_char_was_cr' = IF Consumed # <<>>
                                   THEN Consumed[Len(Consumed)].b = CR
                                   ELSE last_char_was_cr]_vars

\* A CR was the last byte processed, and it was dropped, not printed.
C18_Witness ==
    /\ Running /\ logPc = "running" /\ suppressing /\ last_char_was_cr
    /\ fwStream = <<>> /\ lost # <<>> /\ lost[Len(lost)].b = CR

\* A Log Console session is running on a live device.
InSession == Running /\ mode = "Log" /\ logPc = "running" /\ handle = "alive"

\* The first LF of bytes that follows a CR (cr: a CR precedes bytes).
FirstLFAfterCR(bytes, cr) ==
    CHOOSE i \in DOMAIN bytes :
        /\ bytes[i].b = LF /\ (IF i = 1 THEN cr ELSE bytes[i - 1].b = CR)
        /\ \A j \in 1..(i - 1) :
             ~(bytes[j].b = LF /\ (IF j = 1 THEN cr ELSE bytes[j - 1].b = CR))

\* What a step of logger_task is to print of the bytes it processes: all of
\* them when the flag is clear, those behind the terminating LF when set.
ToPrint ==
    IF ~suppressing THEN Consumed
    ELSE IF HasLFAfterCR(Consumed, last_char_was_cr)
    THEN SubSeq(Consumed, FirstLFAfterCR(Consumed, last_char_was_cr) + 1, Len(Consumed))
    ELSE <<>>

\* C19: in a Log Console session whose polls keep succeeding, once a command
\* was sent (suppress_echo set) and the pending stream holds a CR directly
\* followed by an LF, suppress_echo becomes false; the pending bytes are all
\* processed, those behind that LF are printed, and the flag stays false
\* until input_task receives the next line.
C19_EchoEndsEventually ==
    /\ (InSession /\ suppressing /\ HasLFAfterCR(fwStream, FALSE))
          ~> (~InSession \/ ~suppressing)
    /\ (InSession /\ fwStream # <<>>) ~> (~InSession \/ fwStream = <<>>)
    /\ [][(logPc = "running" /\ logPc' = "running")
            => printed' = printed \o ToPrint]_vars
    /\ [][(logPc = "running" /\ logPc' = "running" /\ ~suppressing /\ sent' = sent)
            => ~suppressing']_vars

\* The command was sent and its echo, CR LF, is pending with the flag set,
\* followed by a log byte of the firmware.
C19_Witness ==
    /\ InSession /\ suppressing /\ inputPc = "recv" /\ ~last_char_was_cr
    /\ fwStream = <<Byte(CR, TRUE), Byte(LF, TRUE), Byte(97, FALSE)>>

\* C20: a Register Shell session whose input is exhausted terminates: once
\* standard input has ended and no line is left, the shell returns and the
\* program ends.
C20_ShellEndsAtEndOfInput ==
    (mode = "Reg" /\ Running /\ stdin = <<>> /\ eof) ~> Exited

====
